---- MODULE Spec2Model ----
(***************************************************************************)
(* A model of catalog/models.py: the Genre, Language, Author, Book and     *)
(* BookInstance tables with the constraints their field declarations       *)
(* create (unique=True, primary_key=True, ForeignKey on_delete=SET_NULL /  *)
(* RESTRICT, default=...), and the derived computations display_genre,     *)
(* is_overdue and __str__.                                                 *)
(*                                                                         *)
(* A row is a record; a table is a set of rows (the many-to-many table is  *)
(* a sequence, because display_genre depends on its order).  A null        *)
(* reference or date is None.  Dates are proleptic ordinals (>= 1).        *)
(* Fields no operation of the module reads (Book.summary,                  *)
(* BookInstance.imprint, Author.date_of_birth/date_of_death) are left out. *)
(***************************************************************************)
EXTENDS Integers, Sequences, FiniteSets, TLC

VARIABLES genre_tbl, language_tbl, author_tbl, user_tbl, book_tbl,
          book_genre_tbl, bookinstance_tbl, next_id, n_created, last,
          callers

store == <<genre_tbl, language_tbl, author_tbl, user_tbl, book_tbl,
           book_genre_tbl, bookinstance_tbl>>

vars == <<genre_tbl, language_tbl, author_tbl, user_tbl, book_tbl,
          book_genre_tbl, bookinstance_tbl, next_id, n_created, last,
          callers>>

\* NULL in a nullable column (null=True).
None == 0

----------------------------------------------------------------------------
\* Bounds of the model: how many rows are inserted in a run, all tables
\* together, and the latest date (an ordinal) an input can be.
MaxCreates == 4
MaxDate == 3

\* The input values the operations draw from.
GenreNames == {"Fantasy"}
LanguageNames == {"English"}
FirstNames == {"Ann"}
LastNames == {"Lee"}
Titles == {"T"}
Isbns == {"1234567890123", "9780000000002"}
Uuids == {1, 2}
Dates == 1..MaxDate
Statuses == {"m", "o", "a", "r", ""}

----------------------------------------------------------------------------
\* BookInstance.LOAN_STATUS: the keys of the choices.
LOAN_STATUS == {"m", "o", "a", "r"}

\* status = CharField(..., default='d'): the value of a status not supplied.
StatusDefault == "d"

\* id = UUIDField(default=uuid.uuid4): the values a draw can give.  A
\* version 4 UUID has its version bits set, so it is never the nil UUID.
uuid4 == Uuids

\* The outcome of the last operation, as its caller sees it: the operation,
\* whether it succeeded, the error raised, the key and isbn it was about, the
\* text or boolean it returned.  For a delete, flag tells whether a row
\* referenced the deleted one; for BookInstance.create, whether the id was
\* generated.
Outcome(op, ok, err, id, isbn) ==
    [op |-> op, ok |-> ok, err |-> err, id |-> id, isbn |-> isbn,
     text |-> "", flag |-> FALSE, today |-> None]

Ids(tbl) == {r.id : r \in tbl}

\* A foreign key column holds NULL or the key of an existing row.
FkOk(ref, tbl) == ref = None \/ ref \in Ids(tbl)

\* Book.isbn declared without unique=True: nothing is checked.
IsbnUniqueOk_Unchecked(id, isbn) == TRUE

\* unique=True on Book.isbn: no other row holds the value.
IsbnUniqueOk(id, isbn) == \A b \in book_tbl : b.id # id => b.isbn # isbn

\* BookInstance.id without the primary key's uniqueness.
PkOk_Unchecked(id) == TRUE

\* primary_key=True on BookInstance.id: no stored row holds the key.
PkOk(id) == id \notin Ids(bookinstance_tbl)

\* BookInstance.book declared on_delete=DO_NOTHING: no row blocks the delete.
Restricting_None(book_id) == {}

\* on_delete=RESTRICT on BookInstance.book: the rows that block the delete.
Restricting(book_id) == {i \in bookinstance_tbl : i.book = book_id}

\* Book.author declared on_delete=DO_NOTHING: the reference stays.
SetNullAuthor_Keep(b, author_id) == b

\* on_delete=SET_NULL on Book.author.
SetNullAuthor(b, author_id) ==
    IF b.author = author_id THEN [b EXCEPT !.author = None] ELSE b

\* on_delete=SET_NULL on Book.language.
SetNullLanguage(b, language_id) ==
    IF b.language = language_id THEN [b EXCEPT !.language = None] ELSE b

\* BookInstance.borrower declared on_delete=DO_NOTHING: the reference stays.
SetNullBorrower_Keep(i, user_id) == i

\* on_delete=SET_NULL on BookInstance.borrower.
SetNullBorrower(i, user_id) ==
    IF i.borrower = user_id THEN [i EXCEPT !.borrower = None] ELSE i

\* A sequence of rows without those whose column col holds val, in order.
RECURSIVE WithoutRows(_, _, _)
WithoutRows(rows, col, val) ==
    IF rows = <<>> THEN <<>>
    ELSE IF Head(rows)[col] # val
         THEN <<Head(rows)>> \o WithoutRows(Tail(rows), col, val)
         ELSE WithoutRows(Tail(rows), col, val)

----------------------------------------------------------------------------
\* Genre, Language, Author and user rows.

CreateGenre(name) ==
    /\ n_created < MaxCreates
    /\ genre_tbl' = genre_tbl \cup {[id |-> next_id.genre, name |-> name]}
    /\ next_id' = [next_id EXCEPT !.genre = @ + 1]
    /\ n_created' = n_created + 1
    /\ last' = Outcome("Genre.create", TRUE, "", next_id.genre, "")
    /\ UNCHANGED <<language_tbl, author_tbl, user_tbl, book_tbl,
                   book_genre_tbl, bookinstance_tbl, callers>>

\* The rows of the many-to-many table go with the Genre (CASCADE on the
\* automatic through table).
DeleteGenre(id) ==
    /\ id \in Ids(genre_tbl)
    /\ genre_tbl' = {g \in genre_tbl : g.id # id}
    /\ book_genre_tbl' = WithoutRows(book_genre_tbl, "genre", id)
    /\ last' = Outcome("Genre.delete", TRUE, "", id, "")
    /\ UNCHANGED <<language_tbl, author_tbl, user_tbl, book_tbl,
                   bookinstance_tbl, next_id, n_created, callers>>

CreateLanguage(name) ==
    /\ n_created < MaxCreates
    /\ language_tbl' = language_tbl \cup {[id |-> next_id.language, name |-> name]}
    /\ next_id' = [next_id EXCEPT !.language = @ + 1]
    /\ n_created' = n_created + 1
    /\ last' = Outcome("Language.create", TRUE, "", next_id.language, "")
    /\ UNCHANGED <<genre_tbl, author_tbl, user_tbl, book_tbl,
                   book_genre_tbl, bookinstance_tbl, callers>>

DeleteLanguage(id) ==
    /\ id \in Ids(language_tbl)
    /\ language_tbl' = {l \in language_tbl : l.id # id}
    /\ book_tbl' = {SetNullLanguage(b, id) : b \in book_tbl}
    /\ last' = [Outcome("Language.delete", TRUE, "", id, "")
                   EXCEPT !.flag = \E b \in book_tbl : b.language = id]
    /\ UNCHANGED <<genre_tbl, author_tbl, user_tbl, book_genre_tbl,
                   bookinstance_tbl, next_id, n_created, callers>>

CreateAuthor(first_name, last_name) ==
    /\ n_created < MaxCreates
    /\ author_tbl' = author_tbl \cup
           {[id |-> next_id.author, first_name |-> first_name,
             last_name |-> last_name]}
    /\ next_id' = [next_id EXCEPT !.author = @ + 1]
    /\ n_created' = n_created + 1
    /\ last' = Outcome("Author.create", TRUE, "", next_id.author, "")
    /\ UNCHANGED <<genre_tbl, language_tbl, user_tbl, book_tbl,
                   book_genre_tbl, bookinstance_tbl, callers>>

DeleteAuthor(id) ==
    /\ id \in Ids(author_tbl)
    /\ author_tbl' = {a \in author_tbl : a.id # id}
    /\ book_tbl' = {SetNullAuthor(b, id) : b \in book_tbl}
    /\ last' = [Outcome("Author.delete", TRUE, "", id, "")
                   EXCEPT !.flag = \E b \in book_tbl : b.author = id]
    /\ UNCHANGED <<genre_tbl, language_tbl, user_tbl, book_genre_tbl,
                   bookinstance_tbl, next_id, n_created, callers>>

\* django.contrib.auth User: only its key matters here.
CreateUser ==
    /\ n_created < MaxCreates
    /\ user_tbl' = user_tbl \cup {[id |-> next_id.user]}
    /\ next_id' = [next_id EXCEPT !.user = @ + 1]
    /\ n_created' = n_created + 1
    /\ last' = Outcome("User.create", TRUE, "", next_id.user, "")
    /\ UNCHANGED <<genre_tbl, language_tbl, author_tbl, book_tbl,
                   book_genre_tbl, bookinstance_tbl, callers>>

DeleteUser(id) ==
    /\ id \in Ids(user_tbl)
    /\ user_tbl' = {u \in user_tbl : u.id # id}
    /\ bookinstance_tbl' = {SetNullBorrower(i, id) : i \in bookinstance_tbl}
    /\ last' = [Outcome("User.delete", TRUE, "", id, "")
                   EXCEPT !.flag = \E i \in bookinstance_tbl : i.borrower = id]
    /\ UNCHANGED <<genre_tbl, language_tbl, author_tbl, book_tbl,
                   book_genre_tbl, next_id, n_created, callers>>

----------------------------------------------------------------------------
\* Book rows.

\* INSERT of a Book: rejected by the UNIQUE constraint on isbn or by a
\* foreign key that resolves to no row.
CreateBook(title, isbn, author, language) ==
    /\ n_created < MaxCreates
    /\ IF ~IsbnUniqueOk(None, isbn)
       THEN /\ last' = Outcome("Book.create", FALSE, "IntegrityError", None, isbn)
            /\ UNCHANGED <<book_tbl, next_id, n_created>>
       ELSE IF ~(FkOk(author, author_tbl) /\ FkOk(language, language_tbl))
       THEN /\ last' = Outcome("Book.create", FALSE, "IntegrityError", None, isbn)
            /\ UNCHANGED <<book_tbl, next_id, n_created>>
       ELSE /\ book_tbl' = book_tbl \cup
                   {[id |-> next_id.book, title |-> title, isbn |-> isbn,
                     author |-> author, language |-> language]}
            /\ next_id' = [next_id EXCEPT !.book = @ + 1]
            /\ n_created' = n_created + 1
            /\ last' = Outcome("Book.create", TRUE, "", next_id.book, isbn)
    /\ UNCHANGED <<genre_tbl, language_tbl, author_tbl, user_tbl,
                   book_genre_tbl, bookinstance_tbl, callers>>

\* UPDATE of a stored Book: the same constraints, the row itself excepted.
UpdateBook(id, title, isbn, author, language) ==
    /\ id \in Ids(book_tbl)
    /\ IF ~IsbnUniqueOk(id, isbn)
       THEN /\ last' = Outcome("Book.update", FALSE, "IntegrityError", id, isbn)
            /\ UNCHANGED book_tbl
       ELSE IF ~(FkOk(author, author_tbl) /\ FkOk(language, language_tbl))
       THEN /\ last' = Outcome("Book.update", FALSE, "IntegrityError", id, isbn)
            /\ UNCHANGED book_tbl
       ELSE /\ book_tbl' = {b \in book_tbl : b.id # id} \cup
                   {[id |-> id, title |-> title, isbn |-> isbn,
                     author |-> author, language |-> language]}
            /\ last' = Outcome("Book.update", TRUE, "", id, isbn)
    /\ UNCHANGED <<genre_tbl, language_tbl, author_tbl, user_tbl,
                   book_genre_tbl, bookinstance_tbl, next_id, n_created, callers>>

\* DELETE of a Book: RestrictedError while a BookInstance references it;
\* otherwise the row goes, with its rows of the many-to-many table.
DeleteBook(id) ==
    /\ id \in Ids(book_tbl)
    /\ IF Restricting(id) # {}
       THEN /\ last' = Outcome("Book.delete", FALSE, "RestrictedError", id, "")
            /\ UNCHANGED <<book_tbl, book_genre_tbl>>
       ELSE /\ book_tbl' = {b \in book_tbl : b.id # id}
            /\ book_genre_tbl' = WithoutRows(book_genre_tbl, "book", id)
            /\ last' = Outcome("Book.delete", TRUE, "", id, "")
    /\ UNCHANGED <<genre_tbl, language_tbl, author_tbl, user_tbl,
                   bookinstance_tbl, next_id, n_created, callers>>

\* book.genre.add(genre): a row of the many-to-many table, once per pair.
AddGenre(book_id, genre_id) ==
    /\ book_id \in Ids(book_tbl)
    /\ genre_id \in Ids(genre_tbl)
    /\ \A k \in 1..Len(book_genre_tbl) :
           ~(book_genre_tbl[k].book = book_id /\ book_genre_tbl[k].genre = genre_id)
    /\ book_genre_tbl' = Append(book_genre_tbl, [book |-> book_id, genre |-> genre_id])
    /\ last' = Outcome("Book.genre.add", TRUE, "", book_id, "")
    /\ UNCHANGED <<genre_tbl, language_tbl, author_tbl, user_tbl, book_tbl,
                   bookinstance_tbl, next_id, n_created, callers>>

----------------------------------------------------------------------------
\* BookInstance rows.

\* INSERT of a BookInstance.  id_given / status_given tell whether the caller
\* supplied the field; a field not supplied takes its default.
CreateBookInstance(id_given, id, book, due_back, borrower, status_given, status) ==
    /\ n_created < MaxCreates
    /\ id \in (IF id_given THEN Uuids ELSE uuid4)
    /\ LET st == IF status_given THEN status ELSE StatusDefault
       IN IF ~PkOk(id)
          THEN /\ last' = [Outcome("BookInstance.create", FALSE, "IntegrityError", id, "")
                              EXCEPT !.flag = ~id_given]
               /\ UNCHANGED <<bookinstance_tbl, n_created>>
          ELSE IF ~(FkOk(book, book_tbl) /\ FkOk(borrower, user_tbl))
          THEN /\ last' = [Outcome("BookInstance.create", FALSE, "IntegrityError", id, "")
                              EXCEPT !.flag = ~id_given]
               /\ UNCHANGED <<bookinstance_tbl, n_created>>
          ELSE /\ bookinstance_tbl' = bookinstance_tbl \cup
                      {[id |-> id, book |-> book, due_back |-> due_back,
                        borrower |-> borrower, status |-> st]}
               /\ n_created' = n_created + 1
               /\ last' = [Outcome("BookInstance.create", TRUE, "", id, "")
                              EXCEPT !.flag = ~id_given]
    /\ UNCHANGED <<genre_tbl, language_tbl, author_tbl, user_tbl, book_tbl,
                   book_genre_tbl, next_id, callers>>

\* UPDATE of a stored BookInstance; the primary key stays.
UpdateBookInstance(id, book, due_back, borrower, status) ==
    /\ id \in Ids(bookinstance_tbl)
    /\ IF ~(FkOk(book, book_tbl) /\ FkOk(borrower, user_tbl))
       THEN /\ last' = Outcome("BookInstance.update", FALSE, "IntegrityError", id, "")
            /\ UNCHANGED bookinstance_tbl
       ELSE /\ bookinstance_tbl' = {i \in bookinstance_tbl : i.id # id} \cup
                   {[id |-> id, book |-> book, due_back |-> due_back,
                     borrower |-> borrower, status |-> status]}
            /\ last' = Outcome("BookInstance.update", TRUE, "", id, "")
    /\ UNCHANGED <<genre_tbl, language_tbl, author_tbl, user_tbl, book_tbl,
                   book_genre_tbl, next_id, n_created, callers>>

DeleteBookInstance(id) ==
    /\ id \in Ids(bookinstance_tbl)
    /\ bookinstance_tbl' = {i \in bookinstance_tbl : i.id # id}
    /\ last' = Outcome("BookInstance.delete", TRUE, "", id, "")
    /\ UNCHANGED <<genre_tbl, language_tbl, author_tbl, user_tbl, book_tbl,
                   book_genre_tbl, next_id, n_created, callers>>

----------------------------------------------------------------------------
\* The store: every table, every write.

EmptyStore ==
    /\ genre_tbl = {} /\ language_tbl = {} /\ author_tbl = {} /\ user_tbl = {}
    /\ book_tbl = {} /\ book_genre_tbl = <<>> /\ bookinstance_tbl = {}
    /\ next_id = [genre |-> 1, language |-> 1, author |-> 1, user |-> 1,
                  book |-> 1]
    /\ n_created = 0

\* The concurrent callers (web requests) of the store.
Callers == {"c1", "c2"}

Idle == [pc |-> "idle", op |-> "", isbn |-> "", id |-> None, book |-> None,
         result |-> ""]

NoCallers == callers = [c \in Callers |-> Idle]

Init ==
    /\ EmptyStore
    /\ NoCallers
    /\ last = Outcome("", TRUE, "", None, "")

\* The references a caller can hold: none, the key of a row that was
\* created (stored or deleted since), or a key not given out yet.
Refs(tbl) == {None} \cup 1..next_id[tbl]
Keys(tbl) == 1..(next_id[tbl] - 1)

Next ==
    \/ \E n \in GenreNames : CreateGenre(n)
    \/ \E g \in Keys("genre") : DeleteGenre(g)
    \/ \E n \in LanguageNames : CreateLanguage(n)
    \/ \E l \in Keys("language") : DeleteLanguage(l)
    \/ \E f \in FirstNames, l \in LastNames : CreateAuthor(f, l)
    \/ \E a \in Keys("author") : DeleteAuthor(a)
    \/ CreateUser
    \/ \E u \in Keys("user") : DeleteUser(u)
    \/ \E t \in Titles, i \in Isbns, a \in Refs("author"), l \in Refs("language") :
           CreateBook(t, i, a, l)
    \/ \E b \in Keys("book"), t \in Titles, i \in Isbns, a \in Refs("author"),
          l \in Refs("language") : UpdateBook(b, t, i, a, l)
    \/ \E b \in Keys("book") : DeleteBook(b)
    \/ \E b \in Keys("book"), g \in Keys("genre") : AddGenre(b, g)
    \/ \E ig \in BOOLEAN, id \in Uuids, b \in Refs("book"), u \in Refs("user") :
           CreateBookInstance(ig, id, b, None, u, TRUE, "a")
    \/ \E id \in Uuids, b \in Refs("book"), u \in Refs("user") :
           UpdateBookInstance(id, b, None, u, "a")
    \/ \E id \in Uuids : DeleteBookInstance(id)

Spec == Init /\ [][Next]_vars

----------------------------------------------------------------------------
\* BookInstance.status: every value a validated caller supplies, or none.

NextStatus ==
    \/ \E id \in Uuids, sg \in BOOLEAN, st \in Statuses :
           CreateBookInstance(TRUE, id, None, None, None, sg, st)
    \/ \E id \in Uuids, st \in Statuses :
           UpdateBookInstance(id, None, None, None, st)
    \/ \E id \in Uuids : DeleteBookInstance(id)

SpecStatus == Init /\ [][NextStatus]_vars

----------------------------------------------------------------------------
\* BookInstance.is_overdue.

\* Python truth of a nullable date: None is false, a date is true.
Truthy(v) == v # None

\* The comparison written >=: overdue on the due day itself.
is_overdue_OnDueDay(self, today) ==
    IF self.due_back = None THEN FALSE ELSE today >= self.due_back

\* bool(self.due_back and date.today() > self.due_back)
is_overdue(self, today) ==
    IF ~Truthy(self.due_back) THEN FALSE ELSE today > self.due_back

Row(tbl, id) == CHOOSE r \in tbl : r.id = id

\* A read of the property on a stored BookInstance, on the day today.
EvalIsOverdue(id, today) ==
    /\ id \in Ids(bookinstance_tbl)
    /\ last' = [Outcome("BookInstance.is_overdue", TRUE, "", id, "")
                   EXCEPT !.flag = is_overdue(Row(bookinstance_tbl, id), today),
                          !.today = today]
    /\ UNCHANGED <<store, next_id, n_created, callers>>

NextOverdue ==
    \/ \E id \in Uuids, d \in {None} \cup Dates :
           CreateBookInstance(TRUE, id, None, d, None, TRUE, "o")
    \/ \E id \in Uuids, d \in {None} \cup Dates :
           UpdateBookInstance(id, None, d, None, "o")
    \/ \E id \in Uuids : DeleteBookInstance(id)
    \/ \E id \in Uuids, t \in Dates : EvalIsOverdue(id, t)

SpecOverdue == Init /\ [][NextOverdue]_vars

----------------------------------------------------------------------------
\* Book.display_genre.

\* self.genre.all(): the Genres of the Book, in the order of the rows of the
\* many-to-many table.
RECURSIVE genre_all(_, _)
genre_all(rows, book_id) ==
    IF rows = <<>> THEN <<>>
    ELSE IF Head(rows).book = book_id
         THEN <<Row(genre_tbl, Head(rows).genre)>> \o genre_all(Tail(rows), book_id)
         ELSE genre_all(Tail(rows), book_id)

\* seq[:n]
Slice(seq, n) == SubSeq(seq, 1, IF Len(seq) < n THEN Len(seq) ELSE n)

\* sep.join(strs)
RECURSIVE Join(_, _)
Join(sep, strs) ==
    IF strs = <<>> THEN ""
    ELSE IF Len(strs) = 1 THEN Head(strs)
    ELSE Head(strs) \o sep \o Join(sep, Tail(strs))

\* The join without the [:3] slice: every Genre is listed.
display_genre_NoSlice(book_id) ==
    LET every == genre_all(book_genre_tbl, book_id)
    IN Join(", ", [k \in 1..Len(every) |-> every[k].name])

\* ', '.join([genre.name for genre in self.genre.all()[:3]])
display_genre(book_id) ==
    LET first == Slice(genre_all(book_genre_tbl, book_id), 3)
    IN Join(", ", [k \in 1..Len(first) |-> first[k].name])

EvalDisplayGenre(book_id) ==
    /\ book_id \in Ids(book_tbl)
    /\ last' = [Outcome("Book.display_genre", TRUE, "", book_id, "")
                   EXCEPT !.text = display_genre(book_id)]
    /\ UNCHANGED <<store, next_id, n_created, callers>>

\* The store after four Genres were created.
InitGenre ==
    /\ genre_tbl = {[id |-> 1, name |-> "Fantasy"], [id |-> 2, name |-> "Horror"],
                    [id |-> 3, name |-> "Drama"], [id |-> 4, name |-> "Romance"]}
    /\ language_tbl = {} /\ author_tbl = {} /\ user_tbl = {}
    /\ book_tbl = {} /\ book_genre_tbl = <<>> /\ bookinstance_tbl = {}
    /\ next_id = [genre |-> 5, language |-> 1, author |-> 1, user |-> 1,
                  book |-> 1]
    /\ n_created = 0
    /\ NoCallers
    /\ last = Outcome("", TRUE, "", None, "")

NextGenre ==
    \/ CreateGenre("Poetry")
    \/ \E g \in Keys("genre") : DeleteGenre(g)
    \/ CreateBook("T", "1234567890123", None, None)
    \/ \E b \in Keys("book") : DeleteBook(b)
    \/ \E b \in Keys("book"), g \in Keys("genre") : AddGenre(b, g)
    \/ \E b \in Keys("book") : EvalDisplayGenre(b)

SpecGenre == InitGenre /\ [][NextGenre]_vars

----------------------------------------------------------------------------
\* __str__ of each model.

Digit == <<"0", "1", "2", "3", "4", "5", "6", "7", "8", "9">>

\* str(uuid): the canonical form of the model's UUIDs.
UuidStr(u) == "00000000-0000-4000-8000-00000000000" \o Digit[u + 1]

\* What a call returns: a text, or the exception it raised.
Returned(text) == [ok |-> TRUE, err |-> "", text |-> text]
Raised(err) == [ok |-> FALSE, err |-> err, text |-> ""]

\* return self.name
Genre_str(self) == Returned(self.name)

\* return self.name
Language_str(self) == Returned(self.name)

\* return self.title
Book_str(self) == Returned(self.title)

\* return '{0} ({1})'.format(self.last_name, self.first_name)
Author_str(self) == Returned(self.last_name \o " (" \o self.first_name \o ")")

\* return '{0} ({1})'.format(self.id, self.book.title): self.book is None
\* when the reference is null, and None has no attribute title.
BookInstance_str(self) ==
    IF self.book = None THEN Raised("AttributeError")
    ELSE Returned(UuidStr(self.id) \o " (" \o Row(book_tbl, self.book).title \o ")")

Table(model) ==
    CASE model = "Genre" -> genre_tbl
      [] model = "Language" -> language_tbl
      [] model = "Author" -> author_tbl
      [] model = "Book" -> book_tbl
      [] model = "BookInstance" -> bookinstance_tbl

Str(model, self) ==
    CASE model = "Genre" -> Genre_str(self)
      [] model = "Language" -> Language_str(self)
      [] model = "Author" -> Author_str(self)
      [] model = "Book" -> Book_str(self)
      [] model = "BookInstance" -> BookInstance_str(self)

\* str(row) of a stored row.
EvalStr(model, id) ==
    /\ id \in Ids(Table(model))
    /\ LET r == Str(model, Row(Table(model), id))
       IN last' = [Outcome(model \o ".__str__", r.ok, r.err, id, "")
                      EXCEPT !.text = r.text]
    /\ UNCHANGED <<store, next_id, n_created, callers>>

Models == {"Genre", "Language", "Author", "Book", "BookInstance"}

NextText ==
    \/ \E n \in GenreNames : CreateGenre(n)
    \/ \E n \in LanguageNames : CreateLanguage(n)
    \/ \E f \in FirstNames, l \in LastNames : CreateAuthor(f, l)
    \/ \E t \in Titles, i \in Isbns : CreateBook(t, i, None, None)
    \/ \E id \in Uuids, b \in Refs("book") :
           CreateBookInstance(FALSE, id, b, None, None, TRUE, "a")
    \/ \E m \in Models, id \in 1..MaxCreates : EvalStr(m, id)

SpecText == Init /\ [][NextText]_vars

----------------------------------------------------------------------------
\* Concurrent callers.  A write is two steps: the check Django makes in the
\* application (validate_unique, the foreign key's validation, the delete
\* Collector) and the statement the database runs, which checks the
\* constraints the fields declare (UNIQUE, PRIMARY KEY, FOREIGN KEY)
\* atomically with the write.  Another caller can run between the two.

\* The UNIQUE constraint of Book.isbn, as the database checks it on INSERT.
DbIsbnTaken(isbn) == \E b \in book_tbl : b.isbn = isbn

\* BookInstance.book declared db_constraint=False: the database checks nothing.
DbReferenced_Unchecked(book_id) == FALSE

\* The FOREIGN KEY constraint of BookInstance.book, as the database checks it
\* on DELETE of a Book.
DbReferenced(book_id) == \E i \in bookinstance_tbl : i.book = book_id

\* The FOREIGN KEY constraint of BookInstance.book, as the database checks it
\* on INSERT of a BookInstance.
DbBookMissing(book_id) == book_id # None /\ book_id \notin Ids(book_tbl)

Finish(c, result) ==
    callers' = [callers EXCEPT ![c].pc = "done", ![c].result = result]

StartCreateBook(c, isbn) ==
    /\ callers[c].pc = "idle"
    /\ callers' = [callers EXCEPT ![c] = [Idle EXCEPT !.pc = "check",
                       !.op = "Book.create", !.isbn = isbn]]
    /\ UNCHANGED <<store, next_id, n_created, last>>

ValidateBook(c) ==
    /\ callers[c].pc = "check" /\ callers[c].op = "Book.create"
    /\ IF ~IsbnUniqueOk(None, callers[c].isbn)
       THEN Finish(c, "ValidationError")
       ELSE callers' = [callers EXCEPT ![c].pc = "write"]
    /\ UNCHANGED <<store, next_id, n_created, last>>

InsertBook(c) ==
    /\ callers[c].pc = "write" /\ callers[c].op = "Book.create"
    /\ IF DbIsbnTaken(callers[c].isbn)
       THEN /\ Finish(c, "IntegrityError")
            /\ UNCHANGED <<book_tbl, next_id, n_created>>
       ELSE /\ book_tbl' = book_tbl \cup
                   {[id |-> next_id.book, title |-> "T", isbn |-> callers[c].isbn,
                     author |-> None, language |-> None]}
            /\ next_id' = [next_id EXCEPT !.book = @ + 1]
            /\ n_created' = n_created + 1
            /\ callers' = [callers EXCEPT ![c].pc = "done", ![c].result = "ok",
                               ![c].id = next_id.book]
    /\ UNCHANGED <<genre_tbl, language_tbl, author_tbl, user_tbl,
                   book_genre_tbl, bookinstance_tbl, last>>

StartDeleteBook(c, id) ==
    /\ callers[c].pc = "idle"
    /\ id \in Ids(book_tbl)
    /\ callers' = [callers EXCEPT ![c] = [Idle EXCEPT !.pc = "check",
                       !.op = "Book.delete", !.id = id]]
    /\ UNCHANGED <<store, next_id, n_created, last>>

\* Collector.collect: RESTRICT raises if a BookInstance references the Book.
CollectBook(c) ==
    /\ callers[c].pc = "check" /\ callers[c].op = "Book.delete"
    /\ IF Restricting(callers[c].id) # {}
       THEN Finish(c, "RestrictedError")
       ELSE callers' = [callers EXCEPT ![c].pc = "write"]
    /\ UNCHANGED <<store, next_id, n_created, last>>

DeleteBookRow(c) ==
    /\ callers[c].pc = "write" /\ callers[c].op = "Book.delete"
    /\ IF DbReferenced(callers[c].id)
       THEN /\ Finish(c, "IntegrityError")
            /\ UNCHANGED <<book_tbl, book_genre_tbl>>
       ELSE /\ book_tbl' = {b \in book_tbl : b.id # callers[c].id}
            /\ book_genre_tbl' = WithoutRows(book_genre_tbl, "book", callers[c].id)
            /\ Finish(c, "ok")
    /\ UNCHANGED <<genre_tbl, language_tbl, author_tbl, user_tbl,
                   bookinstance_tbl, next_id, n_created, last>>

StartCreateBookInstance(c, id, book) ==
    /\ callers[c].pc = "idle"
    /\ callers' = [callers EXCEPT ![c] = [Idle EXCEPT !.pc = "check",
                       !.op = "BookInstance.create", !.id = id, !.book = book]]
    /\ UNCHANGED <<store, next_id, n_created, last>>

ValidateBookInstance(c) ==
    /\ callers[c].pc = "check" /\ callers[c].op = "BookInstance.create"
    /\ IF ~(PkOk(callers[c].id) /\ FkOk(callers[c].book, book_tbl))
       THEN Finish(c, "ValidationError")
       ELSE callers' = [callers EXCEPT ![c].pc = "write"]
    /\ UNCHANGED <<store, next_id, n_created, last>>

InsertBookInstance(c) ==
    /\ callers[c].pc = "write" /\ callers[c].op = "BookInstance.create"
    /\ IF ~PkOk(callers[c].id) \/ DbBookMissing(callers[c].book)
       THEN /\ Finish(c, "IntegrityError")
            /\ UNCHANGED <<bookinstance_tbl, n_created>>
       ELSE /\ bookinstance_tbl' = bookinstance_tbl \cup
                   {[id |-> callers[c].id, book |-> callers[c].book,
                     due_back |-> None, borrower |-> None, status |-> "a"]}
            /\ n_created' = n_created + 1
            /\ Finish(c, "ok")
    /\ UNCHANGED <<genre_tbl, language_tbl, author_tbl, user_tbl, book_tbl,
                   book_genre_tbl, next_id, last>>

\* The store after one Book was created.
InitRace ==
    /\ genre_tbl = {} /\ language_tbl = {} /\ author_tbl = {} /\ user_tbl = {}
    /\ book_tbl = {[id |-> 1, title |-> "T", isbn |-> "1234567890123",
                    author |-> None, language |-> None]}
    /\ book_genre_tbl = <<>> /\ bookinstance_tbl = {}
    /\ next_id = [genre |-> 1, language |-> 1, author |-> 1, user |-> 1,
                  book |-> 2]
    /\ n_created = 0
    /\ NoCallers
    /\ last = Outcome("", TRUE, "", None, "")

NextRace ==
    \E c \in Callers :
        \/ \E i \in Isbns : StartCreateBook(c, i)
        \/ ValidateBook(c)
        \/ InsertBook(c)
        \/ \E b \in Keys("book") : StartDeleteBook(c, b)
        \/ CollectBook(c)
        \/ DeleteBookRow(c)
        \/ \E id \in Uuids, b \in Refs("book") : StartCreateBookInstance(c, id, b)
        \/ ValidateBookInstance(c)
        \/ InsertBookInstance(c)

SpecRace == InitRace /\ [][NextRace]_vars

----------------------------------------------------------------------------
\* No two stored Books have the same isbn.
C1_IsbnDistinct ==
    \A b1 \in book_tbl, b2 \in book_tbl : b1.isbn = b2.isbn => b1 = b2

\* A step that creates or updates a Book with the isbn of another stored
\* Book fails and leaves the Books as they were.
C1_DuplicateRejected ==
    (/\ last'.op \in {"Book.create", "Book.update"}
     /\ \E b \in book_tbl : b.isbn = last'.isbn /\ b.id # last'.id)
    => (~last'.ok /\ book_tbl' = book_tbl)

\* C1: in every reachable state no two stored Books have the same isbn, and
\* a create or update of a Book whose isbn is that of another stored Book is
\* rejected and leaves the stored Books unchanged.
C1_IsbnUnique == []C1_IsbnDistinct /\ [][C1_DuplicateRejected]_vars

\* Two Books are stored and a create with the isbn of one was just rejected.
C1_Witness ==
    /\ Cardinality(book_tbl) = 2
    /\ last.op = "Book.create" /\ ~last.ok
    /\ \E b \in book_tbl : b.isbn = last.isbn

\* C2: the delete of a Book that a stored BookInstance references fails and
\* leaves every table as it was.
C2_RestrictedDelete ==
    [][(/\ last'.op = "Book.delete"
        /\ \E i \in bookinstance_tbl : i.book = last'.id)
       => (/\ ~last'.ok
           /\ last'.err = "RestrictedError"
           /\ store' = store)]_vars

\* A delete of a Book with a BookInstance was just refused.
C2_Witness ==
    /\ last.op = "Book.delete" /\ ~last.ok
    /\ \E b \in book_tbl : b.id = last.id
    /\ \E i \in bookinstance_tbl : i.book = last.id

\* After the step every Book is stored as before, but for column col where
\* it held id; the BookInstances and the Genres of the Books are as before.
C3_BooksAfter(col, id) ==
    /\ Cardinality(book_tbl') = Cardinality(book_tbl)
    /\ \A b \in book_tbl : \E c \in book_tbl' :
           /\ c.id = b.id /\ c.title = b.title /\ c.isbn = b.isbn
           /\ c.author = IF col = "author" /\ b.author = id THEN None ELSE b.author
           /\ c.language = IF col = "language" /\ b.language = id THEN None
                           ELSE b.language
    /\ bookinstance_tbl' = bookinstance_tbl
    /\ book_genre_tbl' = book_genre_tbl

\* After the step every BookInstance is stored as before, but for borrower
\* where it held id; the Books and their Genres are as before.
C3_InstancesAfter(id) ==
    /\ Cardinality(bookinstance_tbl') = Cardinality(bookinstance_tbl)
    /\ \A i \in bookinstance_tbl : \E j \in bookinstance_tbl' :
           /\ j.id = i.id /\ j.book = i.book /\ j.due_back = i.due_back
           /\ j.status = i.status
           /\ j.borrower = IF i.borrower = id THEN None ELSE i.borrower
    /\ book_tbl' = book_tbl
    /\ book_genre_tbl' = book_genre_tbl

C3_SetNullStep ==
    /\ last'.op = "Author.delete" => last'.ok /\ C3_BooksAfter("author", last'.id)
    /\ last'.op = "Language.delete" => last'.ok /\ C3_BooksAfter("language", last'.id)
    /\ last'.op = "User.delete" => last'.ok /\ C3_InstancesAfter(last'.id)

\* C3: the delete of an Author, a Language or a user succeeds; every Book
\* (BookInstance) that referenced the deleted row has that reference none,
\* no Book or BookInstance is removed and every other field is unchanged.
C3_SetNullDelete == [][C3_SetNullStep]_vars

\* An Author that a Book referenced was just deleted; the Book is stored
\* without author, beside a Book that still has one.
C3_Witness ==
    /\ last.op = "Author.delete" /\ last.flag
    /\ \E b \in book_tbl : b.author = None
    /\ \E b \in book_tbl : b.author # None

\* C8: a BookInstance created without an id gets a generated one that is not
\* empty, and no two stored BookInstances have the same id.
C8_IdUnique ==
    /\ \A i \in bookinstance_tbl, j \in bookinstance_tbl : i.id = j.id => i = j
    /\ (last.op = "BookInstance.create" /\ last.ok /\ last.flag)
       => (last.id # None /\ \E i \in bookinstance_tbl : i.id = last.id)

\* Two BookInstances are stored, the second just created with a generated id.
C8_Witness ==
    /\ last.op = "BookInstance.create" /\ last.ok /\ last.flag
    /\ Cardinality(bookinstance_tbl) = 2

\* C10: every reference is none or the key of a stored row, and every row of
\* Book.genre joins a stored Book and a stored Genre.
C10_NoDangling ==
    /\ \A b \in book_tbl :
           /\ b.author = None \/ \E a \in author_tbl : a.id = b.author
           /\ b.language = None \/ \E l \in language_tbl : l.id = b.language
    /\ \A i \in bookinstance_tbl :
           /\ i.book = None \/ \E b \in book_tbl : b.id = i.book
           /\ i.borrower = None \/ \E u \in user_tbl : u.id = i.borrower
    /\ \A k \in 1..Len(book_genre_tbl) :
           /\ \E b \in book_tbl : b.id = book_genre_tbl[k].book
           /\ \E g \in genre_tbl : g.id = book_genre_tbl[k].genre

\* A user that a BookInstance referenced was just deleted; the BookInstance
\* is still stored, and it references a stored Book.
C10_Witness ==
    /\ last.op = "User.delete" /\ last.flag
    /\ \E i \in bookinstance_tbl : i.book # None

\* A read of is_overdue leaves the store as it was and returns whether
\* due_back is set and earlier than today.
C4_IsOverdueStep ==
    last'.op = "BookInstance.is_overdue"
    => /\ store' = store
       /\ \E i \in bookinstance_tbl :
              /\ i.id = last'.id
              /\ last'.flag = (i.due_back # None /\ last'.today > i.due_back)

\* C4: is_overdue is true exactly when due_back is set and today is strictly
\* later than due_back (false with no due_back, false on the due day), and
\* reading it changes no stored row.
C4_IsOverdue == [][C4_IsOverdueStep]_vars

\* is_overdue was just read as false on the very day the copy is due, beside
\* a copy with no due date.
C4_Witness ==
    /\ last.op = "BookInstance.is_overdue" /\ ~last.flag
    /\ \E i \in bookinstance_tbl : i.id = last.id /\ i.due_back = last.today
    /\ \E i \in bookinstance_tbl : i.due_back = None

\* C6: the status of every stored BookInstance is one of the four choices
\* or blank.
C6_StatusDomain ==
    \A i \in bookinstance_tbl : i.status \in {"m", "o", "a", "r", ""}

\* The rows of the many-to-many table that belong to the Book.
C5_Positions(book_id) ==
    {k \in 1..Len(book_genre_tbl) : book_genre_tbl[k].book = book_id}

\* The name of the j-th Genre of the Book, in the order of the relation.
C5_Name(book_id, j) ==
    LET P == C5_Positions(book_id)
        k == CHOOSE k \in P : Cardinality({m \in P : m <= k}) = j
    IN (CHOOSE g \in genre_tbl : g.id = book_genre_tbl[k].genre).name

\* The first min(3, n) names, joined by ", ".
C5_Expected(book_id) ==
    LET n == Cardinality(C5_Positions(book_id))
    IN CASE n = 0 -> ""
         [] n = 1 -> C5_Name(book_id, 1)
         [] n = 2 -> C5_Name(book_id, 1) \o ", " \o C5_Name(book_id, 2)
         [] OTHER -> C5_Name(book_id, 1) \o ", " \o C5_Name(book_id, 2)
                     \o ", " \o C5_Name(book_id, 3)

\* C5: display_genre is the names of the first min(3, n) of the Book's n
\* Genres, in the order of the relation, joined by ", "; the Genres after
\* the third are dropped, and the text is empty when there is none.
C5_DisplayGenre ==
    last.op = "Book.display_genre" => last.text = C5_Expected(last.id)

\* display_genre was just read on a Book with four Genres.
C5_Witness ==
    /\ last.op = "Book.display_genre"
    /\ Cardinality(C5_Positions(last.id)) = 4
    /\ last.text = "Horror, Fantasy, Romance"

\* C9: the text of every stored row is defined: the name of a Genre or a
\* Language, "last_name (first_name)" of an Author, the title of a Book,
\* "id (book title)" of a BookInstance.
C9_TextDefined ==
    /\ last.op = "Genre.__str__"
       => last.ok /\ \E g \in genre_tbl : g.id = last.id /\ last.text = g.name
    /\ last.op = "Language.__str__"
       => last.ok /\ \E l \in language_tbl : l.id = last.id /\ last.text = l.name
    /\ last.op = "Author.__str__"
       => last.ok /\ \E a \in author_tbl :
              /\ a.id = last.id
              /\ last.text = a.last_name \o " (" \o a.first_name \o ")"
    /\ last.op = "Book.__str__"
       => last.ok /\ \E b \in book_tbl : b.id = last.id /\ last.text = b.title
    /\ last.op = "BookInstance.__str__"
       => last.ok /\ \E i \in bookinstance_tbl, b \in book_tbl :
              /\ i.id = last.id /\ b.id = i.book
              /\ last.text = UuidStr(i.id) \o " (" \o b.title \o ")"

\* The failures a caller can receive from a create.
C7_Errors == {"ValidationError", "IntegrityError"}

\* C7: under every interleaving of two callers, no two stored Books have
\* the same isbn, no stored BookInstance references a Book that is not
\* stored, and of two creates of a Book with the same isbn at most one
\* succeeds, the other caller getting an error.
C7_Races ==
    /\ \A b1 \in book_tbl, b2 \in book_tbl : b1.isbn = b2.isbn => b1 = b2
    /\ \A i \in bookinstance_tbl :
           i.book = None \/ \E b \in book_tbl : b.id = i.book
    /\ \A c \in Callers, d \in Callers :
           (/\ c # d
            /\ callers[c].op = "Book.create" /\ callers[d].op = "Book.create"
            /\ callers[c].isbn = callers[d].isbn
            /\ callers[c].pc = "done" /\ callers[d].pc = "done"
            /\ callers[c].result = "ok")
           => callers[d].result \in C7_Errors

\* Both callers created a Book with the same isbn, each found the isbn free
\* when it validated, and the database refused the second insert.
C7_Witness ==
    /\ callers["c1"].op = "Book.create" /\ callers["c2"].op = "Book.create"
    /\ callers["c1"].isbn = callers["c2"].isbn
    /\ callers["c1"].result = "ok"
    /\ callers["c2"].result = "IntegrityError"

====
